---- MODULE Spec2Model ----
(***************************************************************************)
(* Model of the annotation storage of utils/storage.py: the user list      *)
(* (users.json), the annotation ledger (history.json) and its tabular      *)
(* copy (history.csv), and the operations of AnnotationStorage on them.    *)
(*                                                                         *)
(* Conventions.  A Python Optional is a sequence of length 0 (None) or 1.  *)
(* A password is a sequence of one-character strings, so that the policy   *)
(* can inspect its characters.  datetime.now().isoformat() is a number     *)
(* drawn from Times: the wall clock is an input of the program, it may     *)
(* repeat a value and it may step back.  Each call of a storage method is  *)
(* one step; ret holds the operation called, the line of the return        *)
(* statement it left through and the value it returned.                    *)
(*                                                                         *)
(* Around the storage: the data loader, the login page and the router of   *)
(* app.py, and the annotation page with its index into the filtered list.  *)
(* Where two browser sessions matter, a storage call is split at its file  *)
(* operations and calls holds each session's position and local variables. *)
(***************************************************************************)
EXTENDS Integers, Sequences, FiniteSets, TLC

VARIABLES users, history, history_csv, ret, sorted_crops, ground_truth, all_data,
          history_json_damaged, session_state, calls

vars == <<users, history, history_csv, ret, sorted_crops, ground_truth, all_data,
          history_json_damaged, session_state, calls>>

\* What DataLoader reads and what load_all_data returned last.
catalog_vars == <<sorted_crops, ground_truth, all_data>>

\* Whether history.json still parses, the st.session_state of the browser
\* session that is followed, and the storage calls in progress, one per
\* session, each with its position and its local variables.
app_vars == <<history_json_damaged, session_state, calls>>

(* ------------------------------ bounds --------------------------------- *)

MaxHist == 3

MaxLabels == 3

MaxTime == 1

MaxHistJoint == 2

\* save_annotation calls begun in the interleaved specification.
MaxSaves == 3

(* ------------------------------ config.py ------------------------------ *)

ADMIN_CREATION_KEY == "admin_key_2024"

PASSWORD_MIN_LENGTH == 8

PASSWORD_REQUIRE_UPPERCASE == TRUE

PASSWORD_REQUIRE_NUMBERS == TRUE

(* ------------------------------ values --------------------------------- *)

None == <<>>

Some(x) == <<x>>

UpperChars == {"A", "B", "C", "D", "E", "F", "G", "H", "I", "J", "K", "L", "M",
               "N", "O", "P", "Q", "R", "S", "T", "U", "V", "W", "X", "Y", "Z"}

DigitChars == {"0", "1", "2", "3", "4", "5", "6", "7", "8", "9"}

Times == 0..MaxTime

Salts == {"5a"}

\* Usernames are compared exactly: "ann" and "Ann" are two names.
Usernames == {"ann", "Ann"}

PwPassw0rd == <<"P", "a", "s", "s", "w", "0", "r", "d">>

PwSecr3tKey == <<"S", "e", "c", "r", "3", "t", "K", "e", "y">>

PwOther == <<"o", "t", "h", "e", "r">>

PwNoUpper == <<"p", "a", "s", "s", "w", "o", "r", "d", "1">>

PwNoDigit == <<"P", "a", "s", "s", "w", "o", "r", "d">>

Passwords == {PwPassw0rd, PwSecr3tKey, PwOther}

Roles == {"annotator", "admin"}

AdminKeys == {None, Some(""), Some("wrong_key"), Some(ADMIN_CREATION_KEY)}

(* ------------------------- password handling --------------------------- *)

\* hashlib.pbkdf2_hmac('sha256', password, salt, 100000): an ideal key
\* derivation, different for different (password, salt).
PBKDF2(password, salt) == <<"pbkdf2_hmac_sha256", password, salt>>

\* Mutant: the key is derived without the salt that is stored beside it.
_hash_password_unsalted(password, salt) == <<salt, PBKDF2(password, "")>>

\* f"{salt}${pwd_hash.hex()}": the two parts, which hold no '$' themselves.
_hash_password(password, salt) == <<salt, PBKDF2(password, salt)>>

\* Mutant: any hash of two parts verifies.
_verify_password_any(password, password_hash) == Len(password_hash) = 2

_verify_password(password, password_hash) ==
    IF Len(password_hash) # 2
    THEN FALSE
    ELSE PBKDF2(password, password_hash[1]) = password_hash[2]

\* Mutant: the digit requirement is not enforced.
_validate_password_no_digit(password) ==
    IF Len(password) < PASSWORD_MIN_LENGTH
    THEN <<FALSE, "Password must be at least " \o ToString(PASSWORD_MIN_LENGTH) \o " characters">>
    ELSE IF PASSWORD_REQUIRE_UPPERCASE /\ ~(\E i \in 1..Len(password) : password[i] \in UpperChars)
    THEN <<FALSE, "Password must contain at least one uppercase letter">>
    ELSE <<TRUE, "Password valid">>

_validate_password(password) ==
    IF Len(password) < PASSWORD_MIN_LENGTH
    THEN <<FALSE, "Password must be at least " \o ToString(PASSWORD_MIN_LENGTH) \o " characters">>
    ELSE IF PASSWORD_REQUIRE_UPPERCASE /\ ~(\E i \in 1..Len(password) : password[i] \in UpperChars)
    THEN <<FALSE, "Password must contain at least one uppercase letter">>
    ELSE IF PASSWORD_REQUIRE_NUMBERS /\ ~(\E i \in 1..Len(password) : password[i] \in DigitChars)
    THEN <<FALSE, "Password must contain at least one number">>
    ELSE <<TRUE, "Password valid">>

(* ----------------------------- user list ------------------------------- *)

load_users == users

\* Position of the first entry a `for user in users` loop stops at, 0 if none.
FirstUser(us, username) ==
    IF \E i \in 1..Len(us) : us[i].username = username
    THEN CHOOSE i \in 1..Len(us) :
            /\ us[i].username = username
            /\ \A j \in 1..(i - 1) : us[j].username # username
    ELSE 0

get_user(username) ==
    LET i == FirstUser(load_users, username)
    IN  IF i = 0 THEN None ELSE Some(load_users[i])

Returned(op, line, val) == [op |-> op, line |-> line, val |-> val]

\* not username or len(username) < 3
UsernameTooShort(username) == username = "" \/ Len(username) < 3

\* Mutant: only the newest entry is compared.
UsernameExists_LastOnly(us, username) == us # <<>> /\ us[Len(us)].username = username

\* Mutant: only the oldest entry is compared.
UsernameExists_FirstOnly(us, username) == us # <<>> /\ us[1].username = username

\* any(u['username'] == username for u in users)
UsernameExists(us, username) == \E i \in 1..Len(us) : us[i].username = username

\* Mutant: any key that is given is accepted.
AdminKeyRejected_OnlyMissing(role, admin_key) ==
    /\ role = "admin"
    /\ (admin_key = None \/ admin_key = Some(""))

\* role == "admin" and (not admin_key or admin_key != ADMIN_CREATION_KEY)
AdminKeyRejected(role, admin_key) ==
    /\ role = "admin"
    /\ \/ admin_key = None
       \/ admin_key = Some("")
       \/ admin_key # Some(ADMIN_CREATION_KEY)

\* The dictionary register_user appends to the list.
NewUser(username, password_hash, role, now) ==
    [username |-> username,
     password_hash |-> password_hash,
     role |-> role,
     created_at |-> now,
     last_login |-> None,
     is_active |-> TRUE]

\* What a call leaves behind: the list in users.json, the return statement it
\* left through and the value it returned.
Outcome(us, line, val) == [users |-> us, line |-> line, val |-> val]

\* us is the list load_users() reads, now the value of datetime.now() and salt
\* the value of secrets.token_hex(32), both read on the success path only.
register_user(us, username, password, role, admin_key, now, salt) ==
    LET pwd_validation == _validate_password(password) IN
    IF UsernameTooShort(username)
    THEN Outcome(us, 77, <<FALSE, "Username must be at least 3 characters">>)
    ELSE IF UsernameExists(us, username)
    THEN Outcome(us, 80, <<FALSE, "Username already exists">>)
    ELSE IF ~pwd_validation[1]
    THEN Outcome(us, 85, <<FALSE, pwd_validation[2]>>)
    ELSE IF AdminKeyRejected(role, admin_key)
    THEN Outcome(us, 90, <<FALSE, "Invalid admin creation key">>)
    ELSE Outcome(Append(us, NewUser(username, _hash_password(password, salt), role, now)),
                 106,
                 <<TRUE, "User '" \o username \o "' created successfully as " \o role>>)

\* Mutant: is_active is not looked at.
authenticate_user_no_active_check(us, username, password, now) ==
    LET i == FirstUser(us, username)
        logged == [us EXCEPT ![i].last_login = Some(now)]
    IN  IF i = 0
        THEN Outcome(us, 134, <<FALSE, None>>)
        ELSE IF _verify_password(password, us[i].password_hash)
        THEN Outcome(logged, 130, <<TRUE, Some(logged[i])>>)
        ELSE Outcome(us, 132, <<FALSE, None>>)

\* Mutant: the entry of a disabled user is handed out with the refusal.
authenticate_user_leaks_disabled(us, username, password, now) ==
    LET i == FirstUser(us, username)
        logged == [us EXCEPT ![i].last_login = Some(now)]
    IN  IF i = 0
        THEN Outcome(us, 134, <<FALSE, None>>)
        ELSE IF ~us[i].is_active
        THEN Outcome(us, 124, <<FALSE, Some(us[i])>>)
        ELSE IF _verify_password(password, us[i].password_hash)
        THEN Outcome(logged, 130, <<TRUE, Some(logged[i])>>)
        ELSE Outcome(us, 132, <<FALSE, None>>)

authenticate_user(us, username, password, now) ==
    LET i == FirstUser(us, username)
        logged == [us EXCEPT ![i].last_login = Some(now)]
    IN  IF i = 0
        THEN Outcome(us, 134, <<FALSE, None>>)
        ELSE IF ~us[i].is_active
        THEN Outcome(us, 124, <<FALSE, None>>)
        ELSE IF _verify_password(password, us[i].password_hash)
        THEN Outcome(logged, 130, <<TRUE, Some(logged[i])>>)
        ELSE Outcome(us, 132, <<FALSE, None>>)

\* Mutant: the flag is cleared in every entry once the user is found.
disable_user_everybody(us, username) ==
    LET i == FirstUser(us, username)
    IN  IF i # 0
        THEN Outcome([k \in 1..Len(us) |-> [us[k] EXCEPT !.is_active = FALSE]], 174, TRUE)
        ELSE Outcome(us, 175, FALSE)

disable_user(us, username) ==
    LET i == FirstUser(us, username)
    IN  IF i # 0
        THEN Outcome([us EXCEPT ![i].is_active = FALSE], 174, TRUE)
        ELSE Outcome(us, 175, FALSE)

enable_user(us, username) ==
    LET i == FirstUser(us, username)
    IN  IF i # 0
        THEN Outcome([us EXCEPT ![i].is_active = TRUE], 184, TRUE)
        ELSE Outcome(us, 185, FALSE)

\* Mutant: the entry is overwritten by the last one, which is then dropped.
delete_user_swap_remove(us, username) ==
    LET i == FirstUser(us, username)
    IN  IF i = 0
        THEN Outcome(us, 192, TRUE)
        ELSE Outcome(SubSeq([us EXCEPT ![i] = us[Len(us)]], 1, Len(us) - 1), 192, TRUE)

\* The list is written back also when no entry was removed.
delete_user(us, username) ==
    Outcome(SelectSeq(us, LAMBDA u : u.username # username), 192, TRUE)

\* Mutant: the new password is stored without the policy check.
update_password_no_validation(us, username, new_password, salt) ==
    LET i == FirstUser(us, username)
    IN  IF i # 0
        THEN Outcome([us EXCEPT ![i].password_hash = _hash_password(new_password, salt)],
                     205, <<TRUE, "Password updated successfully">>)
        ELSE Outcome(us, 207, <<FALSE, "User not found">>)

update_password(us, username, new_password, salt) ==
    LET pwd_validation == _validate_password(new_password)
        i == FirstUser(us, username)
    IN  IF ~pwd_validation[1]
        THEN Outcome(us, 198, <<FALSE, pwd_validation[2]>>)
        ELSE IF i # 0
        THEN Outcome([us EXCEPT ![i].password_hash = _hash_password(new_password, salt)],
                     205, <<TRUE, "Password updated successfully">>)
        ELSE Outcome(us, 207, <<FALSE, "User not found">>)

\* Mutant: the records of a user who leaves the list are removed with the user.
UserCall_Cascade(op, outcome) ==
    LET left == {outcome.users[i].username : i \in 1..Len(outcome.users)}
        gone == {users[i].username : i \in 1..Len(users)} \ left
    IN  /\ users' = outcome.users
        /\ ret' = Returned(op, outcome.line, outcome.val)
        /\ history' = SelectSeq(history, LAMBDA ann : ann.annotator \notin gone)
        /\ UNCHANGED <<history_csv, catalog_vars, app_vars>>

\* A call of a method of the user directory: users.json gets the list the
\* method leaves, the two ledger files are not opened.
UserCall(op, outcome) ==
    /\ users' = outcome.users
    /\ ret' = Returned(op, outcome.line, outcome.val)
    /\ UNCHANGED <<history, history_csv, catalog_vars, app_vars>>

\* Some value of the clock and of the salt generator, for the calls that end
\* before they read them.
Unread == CHOOSE x \in Times \X Salts : TRUE

\* datetime.now() and secrets.token_hex() are read on the way to line 106 only.
Register(username, password, role, admin_key) ==
    LET refused == register_user(load_users, username, password, role, admin_key,
                                 Unread[1], Unread[2])
    IN  IF refused.line # 106
        THEN UserCall("register_user", refused)
        ELSE \E now \in Times, salt \in Salts :
                UserCall("register_user",
                         register_user(load_users, username, password, role, admin_key, now, salt))

\* datetime.now() is read on the way to line 130 only.
Authenticate(username, password) ==
    LET refused == authenticate_user(load_users, username, password, Unread[1])
    IN  IF refused.line # 130
        THEN UserCall("authenticate_user", refused)
        ELSE \E now \in Times :
                UserCall("authenticate_user",
                         authenticate_user(load_users, username, password, now))

Disable(username) == UserCall("disable_user", disable_user(load_users, username))

Enable(username) == UserCall("enable_user", enable_user(load_users, username))

Delete(username) == UserCall("delete_user", delete_user(load_users, username))

UpdatePassword(username, new_password) ==
    \E salt \in Salts :
        UserCall("update_password", update_password(load_users, username, new_password, salt))

(* ------------------------------- ledger -------------------------------- *)

load_history == history

\* json.load(f) in load_history raises json.JSONDecodeError when history.json
\* does not parse; load_history has no handler, and neither have its callers
\* other than load_history_df.
load_history_raises == history_json_damaged

\* What a call that did not return leaves behind: the operation, the line the
\* exception came from and the exception.
Raised(op, line, exc) == [op |-> op, line |-> line, raised |-> exc]

DigitStr(d) == <<"0", "1", "2", "3", "4", "5", "6", "7", "8", "9">>[d + 1]

RECURSIVE Decimal(_)
\* str(n) of a non-negative integer.
Decimal(n) == IF n < 10 THEN DigitStr(n) ELSE Decimal(n \div 10) \o DigitStr(n % 10)

RECURSIVE ZeroPad(_, _)
\* The padding of format spec 06d: zeros on the left up to the width, never a cut.
ZeroPad(s, width) == IF Len(s) >= width THEN s ELSE ZeroPad("0" \o s, width)

\* Mutant: the sequence number is the ledger length, without the + 1.
_generate_annotation_id_from_zero(hist) == "ANN_" \o ZeroPad(Decimal(Len(hist)), 6)

\* f"ANN_{len(history) + 1:06d}"
_generate_annotation_id(hist) == "ANN_" \o ZeroPad(Decimal(Len(hist) + 1), 6)

\* The fieldnames of the header row written by _initialize_files.
CsvHeader ==
    <<"annotation_id", "image_path", "folder", "filename", "suggested_label",
      "is_correct", "corrected_label", "annotator", "timestamp">>

\* The fieldnames of the DictWriter of save_annotation.
CsvRowFields ==
    <<"annotation_id", "image_path", "folder", "filename", "suggested_label",
      "is_correct", "corrected_label", "annotator", "timestamp", "status">>

\* The text csv.writer writes for a cell: str() of the boolean of is_correct,
\* the other fields are strings already.
CsvCell(field, v) == IF field = "is_correct" THEN (IF v THEN "True" ELSE "False") ELSE v

\* Mutant: the fieldnames list image_path and annotator in each other's place.
CsvRow_fields_swapped(full_annotation) ==
    LET fields == [CsvRowFields EXCEPT ![2] = "annotator", ![8] = "image_path"]
    IN  [k \in 1..Len(fields) |->
            IF fields[k] \in DOMAIN full_annotation
            THEN CsvCell(fields[k], full_annotation[fields[k]])
            ELSE ""]

\* DictWriter.writerow: one cell per fieldname, restval '' for a missing key.
CsvRow(full_annotation) ==
    [k \in 1..Len(CsvRowFields) |->
        IF CsvRowFields[k] \in DOMAIN full_annotation
        THEN CsvCell(CsvRowFields[k], full_annotation[CsvRowFields[k]])
        ELSE ""]

\* {'annotation_id': ..., 'timestamp': ..., **annotation}: a key of annotation
\* overrides the generated one.
FullAnnotation(annotation, annotation_id, now) ==
    annotation @@ [annotation_id |-> annotation_id, timestamp |-> now]

\* Mutant: a record of the same image and annotator is replaced, not kept.
save_annotation_upsert(hist, csv, annotation, now) ==
    LET annotation_id == _generate_annotation_id(hist)
        full_annotation == FullAnnotation(annotation, annotation_id, now)
        others == SelectSeq(hist, LAMBDA ann :
                        ~(ann.image_path = annotation.image_path
                            /\ ann.annotator = annotation.annotator))
    IN  [history_csv |-> Append(csv, CsvRow(full_annotation)),
         history |-> Append(others, full_annotation)]

\* hist is history.json as both load_history() calls read it, csv the rows of
\* history.csv; the result is what the call leaves in the two files.
save_annotation(hist, csv, annotation, now) ==
    LET annotation_id == _generate_annotation_id(hist)
        full_annotation == FullAnnotation(annotation, annotation_id, now)
    IN  [history_csv |-> Append(csv, CsvRow(full_annotation)),
         history |-> Append(hist, full_annotation)]

\* The first load_history(), in _generate_annotation_id, comes before any
\* write: on a damaged history.json the call ends there.
SaveAnnotation(annotation) ==
    IF load_history_raises
    THEN /\ ret' = Raised("save_annotation", 274, "JSONDecodeError")
         /\ UNCHANGED <<users, history, history_csv, catalog_vars, app_vars>>
    ELSE \E now \in Times :
            LET saved == save_annotation(load_history, history_csv, annotation, now) IN
            /\ history_csv' = saved.history_csv
            /\ history' = saved.history
            /\ ret' = Returned("save_annotation", 264, None)
            /\ UNCHANGED <<users, catalog_vars, app_vars>>

\* Mutant: the records are handed out for the names of the user list only.
get_user_annotations_listed_only(username) ==
    IF UsernameExists(load_users, username)
    THEN SelectSeq(load_history, LAMBDA ann : ann.annotator = username)
    ELSE <<>>

get_user_annotations(username) ==
    SelectSeq(load_history, LAMBDA ann : ann.annotator = username)

get_annotated_images(username) ==
    LET annotations == get_user_annotations(username)
    IN  {annotations[i].image_path : i \in 1..Len(annotations)}

RECURSIVE InsertDesc(_, _)
\* x put behind every element whose timestamp is not smaller than its own.
InsertDesc(sorted, x) ==
    IF sorted = <<>> THEN <<x>>
    ELSE IF Head(sorted).timestamp >= x.timestamp
         THEN <<Head(sorted)>> \o InsertDesc(Tail(sorted), x)
         ELSE <<x>> \o sorted

\* Mutant: the list is left in insertion order.
SortedByTimestampDesc_unsorted(seq) == seq

RECURSIVE SortedByTimestampDesc(_)
\* sorted(seq, key=lambda x: x['timestamp'], reverse=True): the sort is stable,
\* and reverse=True keeps records of equal timestamp in their original order.
SortedByTimestampDesc(seq) ==
    IF seq = <<>> THEN <<>>
    ELSE InsertDesc(SortedByTimestampDesc(SubSeq(seq, 1, Len(seq) - 1)), seq[Len(seq)])

get_latest_annotation_for_image(image_path, username) ==
    LET annotations == get_user_annotations(username)
        user_image_annotations ==
            SelectSeq(annotations, LAMBDA ann : ann.image_path = image_path)
    IN  IF user_image_annotations = <<>>
        THEN None
        ELSE Some(SortedByTimestampDesc(user_image_annotations)[1])

RECURSIVE GCD(_, _)
GCD(a, b) == IF b = 0 THEN a ELSE GCD(b, a % b)

\* A float that is the quotient of two integers, kept exact: <<n, d>> in lowest
\* terms with d > 0.
Ratio(n, d) == <<n \div GCD(n, d), d \div GCD(n, d)>>

\* a / b of two ints, b # 0.
TrueDiv(a, b) == Ratio(a, b)

\* x * k of a float and an int.
Times100(x) == Ratio(x[1] * 100, x[2])

\* sum(1 for ann in annotations if ann['is_correct'])
CountCorrect(annotations) == Len(SelectSeq(annotations, LAMBDA ann : ann.is_correct))

\* Mutant: the quotient is taken with // and so is 0 below 100 per cent.
get_user_stats_floor_division(username) ==
    LET annotations == get_user_annotations(username)
        correct == CountCorrect(annotations)
        incorrect == Len(annotations) - correct
    IN  IF annotations = <<>>
        THEN [total |-> 0, correct |-> 0, incorrect |-> 0, correct_percentage |-> Ratio(0, 1)]
        ELSE [total |-> Len(annotations),
              correct |-> correct,
              incorrect |-> incorrect,
              correct_percentage |-> Ratio((correct \div Len(annotations)) * 100, 1)]

get_user_stats(username) ==
    LET annotations == get_user_annotations(username)
        correct == CountCorrect(annotations)
        incorrect == Len(annotations) - correct
    IN  IF annotations = <<>>
        THEN [total |-> 0, correct |-> 0, incorrect |-> 0, correct_percentage |-> Ratio(0, 1)]
        ELSE [total |-> Len(annotations),
              correct |-> correct,
              incorrect |-> incorrect,
              correct_percentage |-> Times100(TrueDiv(correct, Len(annotations)))]

\* Mutant: every row is given the default role.
get_all_user_stats_default_role ==
    [i \in 1..Len(load_users) |->
        get_user_stats(load_users[i].username)
            @@ [username |-> load_users[i].username, role |-> "annotator"]]

\* {'username': username, 'role': user['role'], **user_stats} for each user
\* of the list, in list order.
get_all_user_stats ==
    [i \in 1..Len(load_users) |->
        get_user_stats(load_users[i].username)
            @@ [username |-> load_users[i].username, role |-> load_users[i].role]]

\* The keys of full_annotation in insertion order: annotation_id, timestamp,
\* then the keys of the dictionary the annotation page passes.  json.dump
\* writes them in this order and json.load yields them in this order.
full_annotation_keys ==
    <<"annotation_id", "timestamp", "image_path", "folder", "filename",
      "suggested_label", "is_correct", "corrected_label", "annotator">>

\* pd.DataFrame(history): one row per record, in ledger order; the columns are
\* the keys of the records in the order json.load yields them.  An empty
\* ledger gives pd.DataFrame(), a frame without columns.
DfColumns ==
    IF load_history = <<>> THEN <<>> ELSE full_annotation_keys

\* The JSON branch, taken whenever history.json parses.  The frame pandas
\* builds from history.csv in the except branch is not modelled: the exports
\* are looked at with a history.json that parses.
load_history_df == load_history

\* df[df['annotator'] == username]
get_user_annotations_df(username) ==
    SelectSeq(load_history_df, LAMBDA row : row.annotator = username)

\* df.to_csv(filepath, index=False): the header line and one line of cells per
\* row of the frame.  `if username` takes None and '' for no username.
export_to_csv(username) ==
    LET df == IF username # None /\ username # Some("")
              THEN get_user_annotations_df(username[1])
              ELSE load_history_df
    IN  [header |-> DfColumns,
         rows |-> [k \in 1..Len(df) |->
                    [c \in 1..Len(DfColumns) |-> CsvCell(DfColumns[c], df[k][DfColumns[c]])]]]

\* json.dump(data, f, indent=2): the list that is written.
export_to_json(username) ==
    IF username # None /\ username # Some("")
    THEN get_user_annotations(username[1])
    ELSE load_history

\* The keys of each object of the exported list, in the order json.dump
\* writes them.
export_to_json_keys(username) ==
    [k \in 1..Len(export_to_json(username)) |-> full_annotation_keys]

(* ------------------- admin page: inter-annotator agreement ------------- *)

RECURSIVE Unique(_)
\* Series.unique(): the values in the order of their first appearance.
Unique(seq) ==
    IF seq = <<>> THEN <<>>
    ELSE LET front == Unique(SubSeq(seq, 1, Len(seq) - 1))
             last == seq[Len(seq)]
         IN  IF \E i \in 1..Len(front) : front[i] = last THEN front ELSE Append(front, last)

\* history_df.groupby('image_path')['annotator'].apply(lambda x: x.unique().tolist())
image_annotators ==
    [image_path \in {load_history_df[k].image_path : k \in 1..Len(load_history_df)} |->
        LET image_data == SelectSeq(load_history_df, LAMBDA row : row.image_path = image_path)
        IN  Unique([k \in 1..Len(image_data) |-> image_data[k].annotator])]

\* {k: v for k, v in image_annotators.items() if len(v) > 1}
multi_user_images == {image_path \in DOMAIN image_annotators : Len(image_annotators[image_path]) > 1}

\* The label a row stands for.
FinalLabel(ann_data) ==
    IF ann_data.is_correct THEN ann_data.suggested_label ELSE ann_data.corrected_label

\* Mutant: the first row of the annotator is taken.
FinalLabels_first(image_path) ==
    LET image_data == SelectSeq(load_history_df, LAMBDA row : row.image_path = image_path)
        annotators == image_annotators[image_path]
    IN  [a \in 1..Len(annotators) |->
            LET rows == SelectSeq(image_data, LAMBDA row : row.annotator = annotators[a])
            IN  FinalLabel(rows[1])]

\* labels: for each annotator of the image the label of .iloc[-1], the last of
\* the annotator's rows for the image.
FinalLabels(image_path) ==
    LET image_data == SelectSeq(load_history_df, LAMBDA row : row.image_path = image_path)
        annotators == image_annotators[image_path]
    IN  [a \in 1..Len(annotators) |->
            LET rows == SelectSeq(image_data, LAMBDA row : row.annotator = annotators[a])
            IN  FinalLabel(rows[Len(rows)])]

RECURSIVE CountAgreement(_, _, _)
\* The loop over multi_user_images with its two counters.
CountAgreement(images, agreements, disagreements) ==
    IF images = {}
    THEN [agreements |-> agreements, disagreements |-> disagreements]
    ELSE LET image_path == CHOOSE x \in images : TRUE
             labels == FinalLabels(image_path)
         IN  IF Cardinality({labels[i] : i \in 1..Len(labels)}) = 1
             THEN CountAgreement(images \ {image_path}, agreements + 1, disagreements)
             ELSE CountAgreement(images \ {image_path}, agreements, disagreements + 1)

inter_annotator_agreement == CountAgreement(multi_user_images, 0, 0)

(* ----------------------------- data loader ---------------------------- *)

\* An entry of a folder of sorted_crops: its name, what Path.suffix yields for
\* it and what is_file() answers.
ImageFile(name, suffix) == [name |-> name, suffix |-> suffix, is_file |-> TRUE]

\* The names of this model in the order Python's < on str (and on the Path
\* objects of one directory) puts them: by character, "31" before "4".
NameOrder == <<"000.jpg", "001.jpg", "002.png", "31", "4", "thumbs">>

Rank(name) == CHOOSE i \in 1..Len(NameOrder) : NameOrder[i] = name

RECURSIVE SortedNames(_)
\* sorted(names)
SortedNames(names) ==
    IF names = {} THEN <<>>
    ELSE LET first == CHOOSE x \in names : \A y \in names : Rank(x) <= Rank(y)
         IN  <<first>> \o SortedNames(names \ {first})

\* Lines as readlines() yields them, one-character strings each.
LineHello == <<"h", "e", "l", "l", "o", "\n">>

LineWrold == <<"w", "r", "o", "l", "d", "\n">>

LineCatPadded == <<" ", "c", "a", "t", " ", "\n">>

LineBlank == <<"\n">>

Whitespace == {" ", "\t", "\n", "\r"}

RECURSIVE LStrip(_)
LStrip(chars) ==
    IF chars # <<>> /\ Head(chars) \in Whitespace THEN LStrip(Tail(chars)) ELSE chars

RECURSIVE RStrip(_)
RStrip(chars) ==
    IF chars # <<>> /\ chars[Len(chars)] \in Whitespace
    THEN RStrip(SubSeq(chars, 1, Len(chars) - 1))
    ELSE chars

RECURSIVE Join(_)
Join(chars) == IF chars = <<>> THEN "" ELSE Head(chars) \o Join(Tail(chars))

\* line.strip()
Strip(line) == Join(RStrip(LStrip(line)))

image_extensions == {".jpg", ".jpeg", ".png", ".JPG", ".JPEG", ".PNG"}

\* sorted(names of the directories in sorted_crops)
get_all_folders == SortedNames(DOMAIN sorted_crops)

\* [] when ground_truth/<folder>.txt does not exist, else its lines stripped.
load_ground_truth(folder_name) ==
    IF folder_name \notin DOMAIN ground_truth
    THEN <<>>
    ELSE [i \in 1..Len(ground_truth[folder_name]) |-> Strip(ground_truth[folder_name][i])]

\* The names of the image files of the folder, sorted.
get_images_in_folder(folder_name) ==
    IF folder_name \notin DOMAIN sorted_crops
    THEN <<>>
    ELSE SortedNames({f.name : f \in {g \in sorted_crops[folder_name] :
                                        g.is_file /\ g.suffix \in image_extensions}})

\* Mutant: the label is taken one line further down.
FolderData_off_by_one(folder) ==
    LET images == get_images_in_folder(folder)
        labels == load_ground_truth(folder)
    IN  [k \in 1..Len(images) |->
            LET idx == k - 1 IN
            [image_path |-> "sorted_crops/" \o folder \o "/" \o images[k],
             folder |-> folder,
             filename |-> images[k],
             suggested_label |-> IF idx + 1 < Len(labels) THEN labels[idx + 2] ELSE "",
             index |-> idx]]

\* The dictionaries load_all_data appends for one folder; idx counts from 0.
FolderData(folder) ==
    LET images == get_images_in_folder(folder)
        labels == load_ground_truth(folder)
    IN  [k \in 1..Len(images) |->
            LET idx == k - 1 IN
            [image_path |-> "sorted_crops/" \o folder \o "/" \o images[k],
             folder |-> folder,
             filename |-> images[k],
             suggested_label |-> IF idx < Len(labels) THEN labels[idx + 1] ELSE "",
             index |-> idx]]

RECURSIVE ExtendAll(_)
\* all_data after the loop over folders.
ExtendAll(folders) ==
    IF folders = <<>> THEN <<>>
    ELSE FolderData(Head(folders)) \o ExtendAll(Tail(folders))

load_all_data == ExtendAll(get_all_folders)

LoadAllData ==
    /\ all_data' = load_all_data
    /\ ret' = Returned("load_all_data", 109, load_all_data)
    /\ UNCHANGED <<users, history, history_csv, sorted_crops, ground_truth, app_vars>>

(* ------------------- reads of a damaged history.json ------------------- *)

\* history.json stops parsing: it is cut short or overwritten from outside,
\* or a json.dump into the file opened with 'w' is interrupted.  No method of
\* AnnotationStorage repairs the file.
Damage ==
    /\ ~history_json_damaged
    /\ history_json_damaged' = TRUE
    /\ UNCHANGED <<users, history, history_csv, ret, catalog_vars, session_state, calls>>

\* A read of the ledger: it returns val, or the JSONDecodeError of
\* load_history passes through it.
LedgerRead(op, line, val) ==
    /\ ret' = IF load_history_raises
              THEN Raised(op, 274, "JSONDecodeError")
              ELSE Returned(op, line, val)
    /\ UNCHANGED <<users, history, history_csv, catalog_vars, app_vars>>

LoadHistory == LedgerRead("load_history", 274, load_history)

GetUserAnnotations(username) ==
    LedgerRead("get_user_annotations", 303, get_user_annotations(username))

GetUserStats(username) ==
    LedgerRead("get_user_stats", IF get_user_annotations(username) = <<>> THEN 331 ELSE 341,
               get_user_stats(username))

\* With an empty user list the loop body, and with it load_history, is never
\* reached.
GetAllUserStats ==
    IF load_users = <<>>
    THEN /\ ret' = Returned("get_all_user_stats", 362, <<>>)
         /\ UNCHANGED <<users, history, history_csv, catalog_vars, app_vars>>
    ELSE LedgerRead("get_all_user_stats", 362, get_all_user_stats)

(* ------------- storage calls of two sessions, step by step ------------- *)

\* Each browser session has its own AnnotationStorage object over the same
\* files (app.py, lines 16-18).
Sessions == {1, 2}

\* A session with no storage call in progress.
Idle == [pc |-> "idle"]

\* pc values of a call that has returned or has not begun.
AtRest == {"idle", "returned"}

\* Lines 241-249 of save_annotation: _generate_annotation_id() reads
\* history.json, then full_annotation is built with the clock's value.
SaveGenerateId(s, annotation) ==
    /\ calls[s].pc \in AtRest
    /\ ~load_history_raises
    /\ \E now \in Times :
        calls' = [calls EXCEPT ![s] =
                    [pc |-> "append_csv",
                     full_annotation |->
                        FullAnnotation(annotation, _generate_annotation_id(load_history), now)]]
    /\ UNCHANGED <<users, history, history_csv, ret, catalog_vars,
                   history_json_damaged, session_state>>

\* Lines 251-258: the row is appended to history.csv.
SaveAppendCsv(s) ==
    /\ calls[s].pc = "append_csv"
    /\ history_csv' = Append(history_csv, CsvRow(calls[s].full_annotation))
    /\ calls' = [calls EXCEPT ![s].pc = "read_json"]
    /\ UNCHANGED <<users, history, ret, catalog_vars, history_json_damaged, session_state>>

\* Line 261: history = self.load_history()
SaveReadHistory(s) ==
    /\ calls[s].pc = "read_json"
    /\ ~load_history_raises
    /\ calls' = [calls EXCEPT ![s] = [pc |-> "write_json",
                                      full_annotation |-> calls[s].full_annotation,
                                      history |-> load_history]]
    /\ UNCHANGED <<users, history, history_csv, ret, catalog_vars,
                   history_json_damaged, session_state>>

\* Mutant: the list is read again when the file is rewritten.
rewritten_history_reread(frame) == Append(load_history, frame.full_annotation)

\* Lines 262-264: the list read at line 261, with the new record appended,
\* replaces the content of history.json.
rewritten_history(frame) == Append(frame.history, frame.full_annotation)

SaveRewriteHistory(s) ==
    /\ calls[s].pc = "write_json"
    /\ history' = rewritten_history(calls[s])
    /\ calls' = [calls EXCEPT ![s] = [pc |-> "returned"]]
    /\ ret' = Returned("save_annotation", 264, None)
    /\ UNCHANGED <<users, history_csv, catalog_vars, history_json_damaged, session_state>>

\* The first statement of authenticate_user, disable_user and enable_user:
\* users = self.load_users().  The call keeps the list it read.
CallLoadUsers(s, op, username, password) ==
    /\ calls[s].pc \in AtRest
    /\ calls' = [calls EXCEPT ![s] = [pc |-> "loaded", op |-> op, username |-> username,
                                      password |-> password, users |-> load_users]]
    /\ UNCHANGED <<users, history, history_csv, ret, catalog_vars,
                   history_json_damaged, session_state>>

\* What the rest of the method does with the list the call read.
CallOutcome(frame, now) ==
    CASE frame.op = "authenticate_user" ->
            authenticate_user(frame.users, frame.username, frame.password, now)
      [] frame.op = "disable_user" -> disable_user(frame.users, frame.username)
      [] frame.op = "enable_user" -> enable_user(frame.users, frame.username)

\* The return statements that follow a self._save_users(users).
LinesAfterSave == {130, 174, 184}

\* The rest of the method: on the paths through _save_users the list the call
\* read, with its own change, replaces the content of users.json; on the
\* other paths the file is not opened again.
CallFinish(s) ==
    /\ calls[s].pc = "loaded"
    /\ \E now \in Times :
        LET outcome == CallOutcome(calls[s], now) IN
        /\ users' = IF outcome.line \in LinesAfterSave THEN outcome.users ELSE users
        /\ ret' = Returned(calls[s].op, outcome.line, outcome.val)
    /\ calls' = [calls EXCEPT ![s] = [pc |-> "returned"]]
    /\ UNCHANGED <<history, history_csv, catalog_vars, history_json_damaged, session_state>>

(* ------------------------------- app.py -------------------------------- *)

\* The characters of a value of the role selectbox.
RoleChars(role) ==
    IF role = "admin"
    THEN <<"a", "d", "m", "i", "n">>
    ELSE <<"a", "n", "n", "o", "t", "a", "t", "o", "r">>

\* storage.register_user(username, role) as the login page and the system
\* check call it: the second positional parameter of register_user is
\* password, so the role arrives as the password while role keeps its default
\* 'annotator' and admin_key its default None.
register_user_two_arguments(us, username, role, now, salt) ==
    register_user(us, username, RoleChars(role), "annotator", None, now, salt)

\* bool(x) of a returned tuple: a tuple is falsy only when it is empty.
Truthy(tuple) == Len(tuple) > 0

\* pages/admin.py: the dashboard is rendered at once, for whoever the
\* session state names.
show_admin_page == "Admin Dashboard"

show_annotation_page == "Annotation Interface"

\* main(): the page a run of the script renders for a session state.
main(ss) ==
    IF ss.current_user = None
    THEN "login_page"
    ELSE IF ss.current_role = Some("admin")
    THEN show_admin_page
    ELSE show_annotation_page

\* A quick-login button of the login page: the idx-th entry of load_users().
\* The page has called load_users() before it handles the click.
QuickLogin(idx) ==
    /\ main(session_state) = "login_page"
    /\ idx \in 1..Len(load_users)
    /\ session_state' = [current_user |-> Some(load_users[idx].username),
                         current_role |-> Some(load_users[idx].role)]
    /\ ret' = Returned("load_users", 212, load_users)
    /\ UNCHANGED <<users, history, history_csv, catalog_vars, history_json_damaged, calls>>

\* The Login / Register button; username is the text input after strip() and
\* role the value of the selectbox.  The session keys are set whatever
\* register_user returned.
LoginRegister(username, role) ==
    /\ main(session_state) = "login_page"
    /\ IF username # ""
       THEN \E now \in Times, salt \in Salts :
                LET is_new == register_user_two_arguments(load_users, username, role, now, salt)
                IN  /\ users' = is_new.users
                    /\ ret' = Returned("register_user", is_new.line, is_new.val)
                    /\ session_state' = [current_user |-> Some(username),
                                         current_role |-> Some(role)]
       ELSE /\ ret' = Returned("load_users", 212, load_users)
            /\ UNCHANGED <<users, session_state>>
    /\ UNCHANGED <<history, history_csv, catalog_vars, history_json_damaged, calls>>

\* The Logout button of the sidebar: both keys are deleted.
Logout ==
    /\ main(session_state) # "login_page"
    /\ session_state' = [current_user |-> None, current_role |-> None]
    /\ UNCHANGED <<users, history, history_csv, ret, catalog_vars, history_json_damaged, calls>>

(* -------------------------- pages/annotate.py -------------------------- *)

\* storage.get_annotated_images(username) over the ledger hist.
annotated_images(hist, username) ==
    {hist[k].image_path : k \in {j \in 1..Len(hist) : hist[j].annotator = username}}

\* filtered_data after "Apply filters", with "Show only incorrect" unchecked.
filtered_data(hist, username, show_only_unannotated) ==
    IF show_only_unannotated
    THEN SelectSeq(all_data, LAMBDA d : d.image_path \notin annotated_images(hist, username))
    ELSE all_data

\* A run of show_annotation_page from the filters to current_data, for the
\* ledger hist and the current_index the session state holds: with no image
\* left the page returns before it touches the index; an index beyond the
\* list is set to 0; current_data is the item at the index.
Rendered(ss, hist, current_index, show_only_unannotated) ==
    LET filtered == filtered_data(hist, ss.current_user[1], show_only_unannotated)
        valid_index == IF current_index >= Len(filtered) THEN 0 ELSE current_index
    IN  IF filtered = <<>>
        THEN [ss EXCEPT !.current_index = current_index,
                        !.show_only_unannotated = show_only_unannotated,
                        !.current_data = None]
        ELSE [ss EXCEPT !.current_index = valid_index,
                        !.show_only_unannotated = show_only_unannotated,
                        !.current_data = Some(filtered[valid_index + 1])]

\* "Move to next" of both save buttons: filtered is the list of the run that
\* handles the click, computed before the save.
moved_to_next(current_index, filtered) ==
    IF current_index < Len(filtered) - 1 THEN current_index + 1 ELSE current_index

\* "Correct & Next" (is_correct, corrected_label '') and "Submit & Next"
\* (not is_correct, the label typed): the image shown is saved, the index is
\* moved, and st.rerun() renders the page over the new ledger.
SaveAndNext(is_correct, corrected_label) ==
    /\ session_state.current_data # None
    /\ LET current_data == session_state.current_data[1]
           username == session_state.current_user[1]
           filtered == filtered_data(load_history, username,
                                     session_state.show_only_unannotated)
           annotation == [image_path |-> current_data.image_path,
                          folder |-> current_data.folder,
                          filename |-> current_data.filename,
                          suggested_label |-> current_data.suggested_label,
                          is_correct |-> is_correct,
                          corrected_label |-> corrected_label,
                          annotator |-> username]
       IN  \E now \in Times :
            LET saved == save_annotation(load_history, history_csv, annotation, now) IN
            /\ history_csv' = saved.history_csv
            /\ history' = saved.history
            /\ session_state' =
                    Rendered(session_state, saved.history,
                             moved_to_next(session_state.current_index, filtered),
                             session_state.show_only_unannotated)
    /\ ret' = Returned("save_annotation", 264, None)
    /\ UNCHANGED <<users, catalog_vars, history_json_damaged, calls>>

\* The checkbox "Show only unannotated" is clicked: the script runs again.
ToggleUnannotated ==
    /\ session_state' = Rendered(session_state, load_history, session_state.current_index,
                                 ~session_state.show_only_unannotated)
    /\ UNCHANGED <<users, history, history_csv, ret, catalog_vars, history_json_damaged, calls>>

\* The buttons Previous and Next, disabled at the ends of the filtered list.
Navigate(step) ==
    /\ session_state.current_data # None
    /\ LET filtered == filtered_data(load_history, session_state.current_user[1],
                                     session_state.show_only_unannotated)
       IN  IF step = 1
           THEN session_state.current_index < Len(filtered) - 1
           ELSE session_state.current_index # 0
    /\ session_state' = Rendered(session_state, load_history,
                                 session_state.current_index + step,
                                 session_state.show_only_unannotated)
    /\ UNCHANGED <<users, history, history_csv, ret, catalog_vars, history_json_damaged, calls>>

(* --------------------------- specifications ---------------------------- *)

\* AnnotationStorage.__init__ on an empty annotations directory.
InitStorage ==
    /\ users = <<>>
    /\ history = <<>>
    /\ history_csv = <<>>
    /\ ret = Returned("__init__", 36, None)

\* st.session_state before a login: neither current_user nor current_role
\* is a key of it.
NotLoggedIn == [current_user |-> None, current_role |-> None]

\* history.json is the '[]' __init__ wrote, nobody is logged in and no
\* storage call is in progress.
InitApp ==
    /\ history_json_damaged = FALSE
    /\ session_state = NotLoggedIn
    /\ calls = <<>>

\* The data directories in the layout of create_sample_data.py, cut to one
\* folder of two images with a label each.  Nothing is loaded yet.
Init ==
    /\ InitStorage
    /\ InitApp
    /\ sorted_crops = [f \in {"31"} |-> {ImageFile("000.jpg", ".jpg"), ImageFile("001.jpg", ".jpg")}]
    /\ ground_truth = [f \in {"31"} |-> <<LineHello, LineWrold>>]
    /\ all_data = <<>>

\* The items of the catalog the annotation page walks through.
Catalog ==
    { [image_path |-> "sorted_crops/31/000.jpg", folder |-> "31",
       filename |-> "000.jpg", suggested_label |-> "hello"],
      [image_path |-> "sorted_crops/31/001.jpg", folder |-> "31",
       filename |-> "001.jpg", suggested_label |-> "wrold"] }

Annotators == {"ann", "bob"}

\* The dictionaries the annotation page passes to save_annotation.
AnnotationInputs ==
    { item @@ [is_correct |-> TRUE, corrected_label |-> "", annotator |-> a] :
        item \in Catalog, a \in Annotators }
    \cup
    { item @@ [is_correct |-> FALSE, corrected_label |-> "world", annotator |-> a] :
        item \in Catalog, a \in Annotators }

NextUsers ==
    \/ \E username \in Usernames, password \in Passwords, role \in Roles,
          admin_key \in AdminKeys :
            Register(username, password, role, admin_key)
    \/ \E username \in Usernames, password \in Passwords :
            Authenticate(username, password)
    \/ \E username \in Usernames : Disable(username)
    \/ \E username \in Usernames : Enable(username)
    \/ \E username \in Usernames : Delete(username)
    \/ \E username \in Usernames, password \in Passwords :
            UpdatePassword(username, password)

NextLedger ==
    \E annotation \in AnnotationInputs :
        /\ Len(history) < MaxHist
        /\ SaveAnnotation(annotation)

\* The user directory alone: the ledger stays empty.
SpecUsers == Init /\ [][NextUsers]_vars

\* The ledger alone: nobody registers.
SpecLedger == Init /\ [][NextLedger]_vars

\* The whole storage, on inputs small enough for the product of both parts.
JointUsernames == {"ab", "ann"}

JointPasswords == {PwPassw0rd, PwOther, PwNoUpper, PwNoDigit}

\* No admin is registered here: the admin key is an input of SpecUsers.
JointAdminKeys == {None, Some("wrong_key")}

JointAnnotationInputs ==
    { a \in AnnotationInputs : a.is_correct /\ a.filename = "000.jpg" }

Next ==
    \/ \E username \in JointUsernames, password \in JointPasswords, role \in Roles,
          admin_key \in JointAdminKeys :
            Register(username, password, role, admin_key)
    \/ \E username \in JointUsernames, password \in JointPasswords :
            Authenticate(username, password)
    \/ \E username \in JointUsernames : Disable(username)
    \/ \E username \in JointUsernames : Enable(username)
    \/ \E username \in JointUsernames : Delete(username)
    \/ \E username \in JointUsernames, password \in JointPasswords :
            UpdatePassword(username, password)
    \/ \E annotation \in JointAnnotationInputs :
        /\ Len(history) < MaxHistJoint
        /\ SaveAnnotation(annotation)

Spec == Init /\ [][Next]_vars

\* The admin's view: three users of either role who come and go, and the ledger
\* their annotations are saved in.  The clock stands still here: created_at
\* and timestamp play no part in what is checked under this specification.
RosterUsernames == {"ann", "bob", "cyd"}

RosterAnnotationInputs == { a \in AnnotationInputs : a.filename = "000.jpg" }

ClockStandsStill ==
    /\ \A i \in 1..Len(users') : users'[i].created_at = 0
    /\ \A k \in 1..Len(history') : history'[k].timestamp = 0

NextRoster ==
    \/ \E username \in RosterUsernames, role \in Roles :
            /\ Register(username, PwPassw0rd, role, Some(ADMIN_CREATION_KEY))
            /\ ClockStandsStill
    \/ \E username \in RosterUsernames : Disable(username)
    \/ \E username \in RosterUsernames : Enable(username)
    \/ \E username \in RosterUsernames : Delete(username)
    \/ \E annotation \in RosterAnnotationInputs :
        /\ Len(history) < MaxHistJoint
        /\ SaveAnnotation(annotation)
        /\ ClockStandsStill

SpecRoster == Init /\ [][NextRoster]_vars

\* The ledger as the agreement figures need it: three annotators, and for each
\* image the verdicts correct, incorrect with the suggested word typed again,
\* and incorrect with another word.  The clock stands still here too.
AgreementInputs ==
    { item @@ [is_correct |-> TRUE, corrected_label |-> "", annotator |-> a] :
        item \in Catalog, a \in RosterUsernames }
    \cup
    { item @@ [is_correct |-> FALSE, corrected_label |-> item.suggested_label, annotator |-> a] :
        item \in Catalog, a \in RosterUsernames }
    \cup
    { item @@ [is_correct |-> FALSE, corrected_label |-> "world", annotator |-> a] :
        item \in Catalog, a \in RosterUsernames }

NextAgreement ==
    \E annotation \in AgreementInputs :
        /\ Len(history) < MaxHist
        /\ SaveAnnotation(annotation)
        /\ ClockStandsStill

SpecAgreement == Init /\ [][NextAgreement]_vars

\* The data loader alone, on every layout of the two data directories that is
\* built from the parts below.
FolderEntries ==
    {ImageFile("000.jpg", ".jpg"), ImageFile("001.jpg", ".jpg"), ImageFile("002.png", ".png"),
     [name |-> "thumbs", suffix |-> "", is_file |-> FALSE]}

RawLines == {LineHello, LineWrold, LineCatPadded, LineBlank}

\* The files ground_truth/<folder>.txt can be: up to MaxLabels lines.
LabelFiles == UNION {[1..n -> RawLines] : n \in 0..MaxLabels}

InitLoader ==
    /\ InitStorage
    /\ InitApp
    /\ all_data = <<>>
    /\ \E entries \in SUBSET FolderEntries, second \in BOOLEAN :
        sorted_crops = IF second
                       THEN [f \in {"31", "4"} |->
                                IF f = "31" THEN entries ELSE {ImageFile("000.jpg", ".jpg")}]
                       ELSE [f \in {"31"} |-> entries]
    /\ \E labelled \in BOOLEAN, lines \in LabelFiles :
        ground_truth = IF labelled
                       THEN [f \in {"31"} |-> lines]
                       ELSE [f \in {"4"} |-> lines]

NextLoader == LoadAllData

SpecLoader == InitLoader /\ [][NextLoader]_vars

\* The login page in front of the user directory: accounts are created by
\* four-argument register_user calls with a password of the policy, and one
\* browser session logs in and out.
PortalAccounts == {"ann", "bob"}

\* What is typed into the username field: nothing, the name of an account, or
\* a name no account has.
PortalTyped == {"", "ann", "zed"}

NextPortal ==
    \/ \E username \in PortalAccounts, role \in Roles :
            Register(username, PwPassw0rd, role, Some(ADMIN_CREATION_KEY))
    \/ \E idx \in 1..Cardinality(PortalAccounts) : QuickLogin(idx)
    \/ \E username \in PortalTyped, role \in Roles : LoginRegister(username, role)
    \/ Logout

SpecPortal == Init /\ [][NextPortal]_vars

\* The ledger with a history.json that may stop parsing, and the calls that
\* read it.
DamageAnnotationInputs == { a \in AnnotationInputs : a.filename = "000.jpg" }

NextDamage ==
    \/ \E role \in Roles : Register("ann", PwPassw0rd, role, Some(ADMIN_CREATION_KEY))
    \/ \E annotation \in DamageAnnotationInputs :
        /\ Len(history) < MaxHistJoint
        /\ SaveAnnotation(annotation)
    \/ Damage
    \/ LoadHistory
    \/ \E username \in Annotators : GetUserAnnotations(username)
    \/ \E username \in Annotators : GetUserStats(username)
    \/ GetAllUserStats

SpecDamage == Init /\ [][NextDamage]_vars

\* The files of Init with two sessions at rest.
InitSessions ==
    /\ InitStorage
    /\ sorted_crops = [f \in {"31"} |-> {ImageFile("000.jpg", ".jpg"), ImageFile("001.jpg", ".jpg")}]
    /\ ground_truth = [f \in {"31"} |-> <<LineHello, LineWrold>>]
    /\ all_data = <<>>
    /\ history_json_damaged = FALSE
    /\ session_state = NotLoggedIn
    /\ calls = [s \in Sessions |-> Idle]

\* Session 1 is ann's and session 2 is bob's.
SessionUser(s) == IF s = 1 THEN "ann" ELSE "bob"

\* Each session confirms the suggested label of the first image.
RaceAnnotationInputs(s) ==
    { a \in AnnotationInputs :
        a.is_correct /\ a.filename = "000.jpg" /\ a.annotator = SessionUser(s) }

\* The save_annotation calls begun so far: one row of history.csv each, and
\* the calls that have not reached their row yet.
SavesBegun == Len(history_csv) + Cardinality({s \in Sessions : calls[s].pc = "append_csv"})

\* save_annotation calls of two sessions, interleaved at their file operations.
NextRace ==
    \E s \in Sessions :
        \/ \E annotation \in RaceAnnotationInputs(s) :
            /\ SavesBegun < MaxSaves
            /\ SaveGenerateId(s, annotation)
        \/ SaveAppendCsv(s)
        \/ SaveReadHistory(s)
        \/ SaveRewriteHistory(s)

SpecRace == InitSessions /\ [][NextRace]_vars

\* The account the interleaved calls are about, and the passwords tried.
GuardedUser == "ann"

NextGuard ==
    \/ Register(GuardedUser, PwPassw0rd, "annotator", None)
    \/ \E s \in Sessions, password \in {PwPassw0rd, PwOther} :
            CallLoadUsers(s, "authenticate_user", GuardedUser, password)
    \/ \E s \in Sessions : CallLoadUsers(s, "disable_user", GuardedUser, <<>>)
    \/ \E s \in Sessions : CallLoadUsers(s, "enable_user", GuardedUser, <<>>)
    \/ \E s \in Sessions : CallFinish(s)

\* authenticate_user, disable_user and enable_user of two sessions,
\* interleaved at load_users and _save_users.
SpecGuard == InitSessions /\ [][NextGuard]_vars

\* Accounts that come and go while their holders annotate: an annotation is
\* saved under a name while the user list holds it with role annotator, the
\* role the router sends to the annotation page.
RejoinUsernames == {"ann", "bob"}

RejoinAnnotationInputs ==
    { a \in AnnotationInputs : a.filename = "000.jpg" /\ a.annotator \in RejoinUsernames }

StoredAsAnnotator(username) ==
    /\ get_user(username) # None
    /\ get_user(username)[1].role = "annotator"

NextRejoin ==
    \/ \E username \in RejoinUsernames, role \in Roles :
            /\ Register(username, PwPassw0rd, role, Some(ADMIN_CREATION_KEY))
            /\ ClockStandsStill
    \/ \E username \in RejoinUsernames : Delete(username)
    \/ \E annotation \in RejoinAnnotationInputs :
        /\ StoredAsAnnotator(annotation.annotator)
        /\ Len(history) < MaxHistJoint
        /\ SaveAnnotation(annotation)
        /\ ClockStandsStill

SpecRejoin == Init /\ [][NextRejoin]_vars

\* The annotation page of ann over a folder of three images with a label
\* each; the page has been rendered once: index 0, no filter checked.
InitAnnotate ==
    /\ InitStorage
    /\ sorted_crops = [f \in {"31"} |-> {ImageFile("000.jpg", ".jpg"),
                                         ImageFile("001.jpg", ".jpg"),
                                         ImageFile("002.png", ".png")}]
    /\ ground_truth = [f \in {"31"} |-> <<LineHello, LineWrold, LineCatPadded>>]
    /\ all_data = load_all_data
    /\ history_json_damaged = FALSE
    /\ calls = <<>>
    /\ session_state =
            Rendered([current_user |-> Some("ann"), current_role |-> Some("annotator"),
                      current_index |-> 0, show_only_unannotated |-> FALSE,
                      current_data |-> None],
                     <<>>, 0, FALSE)

NextAnnotate ==
    \/ /\ Len(history) < MaxHist
       /\ \/ SaveAndNext(TRUE, "")
          \/ SaveAndNext(FALSE, "world")
    \/ ToggleUnannotated
    \/ \E step \in {-1, 1} : Navigate(step)

SpecAnnotate == InitAnnotate /\ [][NextAnnotate]_vars

(* ------------------------- vocabulary of the claims -------------------- *)

Registered(username) == \E i \in 1..Len(users) : users[i].username = username

Entry(username) == users[FirstUser(users, username)]

\* The password policy of config.py, stated on its own.
SatisfiesPolicy(password) ==
    /\ Len(password) >= 8
    /\ \E i \in 1..Len(password) : password[i] \in UpperChars
    /\ \E i \in 1..Len(password) : password[i] \in DigitChars

AllUsernames == Usernames \cup JointUsernames

AllPasswords == Passwords \cup JointPasswords

IsPrefix(s, t) == Len(s) <= Len(t) /\ SubSeq(t, 1, Len(s)) = s

\* C1: in every state, a registration with a username of length >= 3 that is
\* not registered, a password satisfying the policy and a role that is not
\* admin or comes with the admin key succeeds, and authenticate_user(username,
\* password) called right after it succeeds with a user of that username and
\* role.
C1_RegisterThenAuthenticate ==
    \A username \in Usernames, password \in Passwords, role \in Roles,
       admin_key \in AdminKeys, now \in Times, salt \in Salts :
        ( /\ Len(username) >= 3
          /\ ~Registered(username)
          /\ SatisfiesPolicy(password)
          /\ (role # "admin" \/ admin_key = Some(ADMIN_CREATION_KEY)) )
        => LET reg == register_user(users, username, password, role, admin_key, now, salt) IN
           /\ reg.val[1] = TRUE
           /\ \A later \in Times :
                LET auth == authenticate_user(reg.users, username, password, later) IN
                /\ auth.val[1] = TRUE
                /\ auth.val[2] # None
                /\ auth.val[2][1].username = username
                /\ auth.val[2][1].role = role

\* A registration of an admin has succeeded and the same user has logged in.
C1_Witness ==
    /\ ret.op = "authenticate_user"
    /\ ret.line = 130
    /\ ret.val[2][1].role = "admin"
    /\ ret.val[2][1].last_login # None

\* C2: in every state, register_user with a username that is in the list fails
\* with "Username already exists" whatever the password, role and key are, and
\* leaves the list as it was.
C2_DuplicateRejected ==
    \A username \in Usernames, password \in Passwords, role \in Roles,
       admin_key \in AdminKeys, now \in Times, salt \in Salts :
        Registered(username)
        => LET reg == register_user(users, username, password, role, admin_key, now, salt) IN
           /\ reg.val = <<FALSE, "Username already exists">>
           /\ reg.users = users

\* A second registration of a name has been refused while two users are listed.
C2_Witness ==
    /\ ret.op = "register_user"
    /\ ret.line = 80
    /\ Len(users) = 2

\* The password an entry's hash was derived from.
CurrentPassword(username) == Entry(username).password_hash[2][2]

\* C3: in every state, for a registered active user, authenticate_user with a
\* password other than the one set for the user fails and leaves the list,
\* last_login included, as it was.
C3_WrongPasswordFails ==
    \A username \in Usernames, password \in AllPasswords, now \in Times :
        ( /\ Registered(username)
          /\ Entry(username).is_active
          /\ password # CurrentPassword(username) )
        => LET auth == authenticate_user(users, username, password, now) IN
           /\ auth.val = <<FALSE, None>>
           /\ auth.users = users

\* A login with a wrong password has been refused for a user who had logged in.
C3_Witness ==
    /\ ret.op = "authenticate_user"
    /\ ret.line = 132
    /\ \E i \in 1..Len(users) : users[i].is_active /\ users[i].last_login # None

Disabled(username) == Registered(username) /\ ~Entry(username).is_active

IdsDistinct(hist) ==
    \A i, j \in 1..Len(hist) : i # j => hist[i].annotation_id # hist[j].annotation_id

\* C5: the ledger starts empty; in every state the annotation_id values of the
\* ledger are pairwise distinct, and a save_annotation call, whatever its input,
\* leaves a ledger one record longer whose ids are pairwise distinct: after N
\* calls the ledger holds N records.
C5_AppendMonotonic ==
    /\ IdsDistinct(load_history)
    /\ \A annotation \in AnnotationInputs, now \in Times :
        LET saved == save_annotation(load_history, history_csv, annotation, now) IN
        /\ Len(saved.history) = Len(load_history) + 1
        /\ IdsDistinct(saved.history)

\* Three records are in the ledger, all for the same image and annotator.
C5_Witness ==
    /\ Len(history) = 3
    /\ ret.op = "save_annotation"
    /\ \A i \in 1..3 :
        /\ history[i].image_path = history[1].image_path
        /\ history[i].annotator = history[1].annotator

\* C6: whatever the call, the ledger before it is a prefix of the ledger after
\* it; save_annotation lengthens it by exactly one record and no other call
\* changes it.
C6_LedgerAppendOnly ==
    [][ /\ IsPrefix(history, history')
        /\ (ret'.op = "save_annotation" => Len(history') = Len(history) + 1)
        /\ (ret'.op # "save_annotation" => history' = history)
    ]_vars

\* A user with records in the ledger has been deleted.
C6_Witness ==
    /\ ret.op = "delete_user"
    /\ ~Registered("ann")
    /\ Len(get_user_annotations("ann")) >= 1
    /\ Len(history) = 2

ImagePaths == {item.image_path : item \in Catalog}

Matching(image_path, username) ==
    {i \in 1..Len(history) :
        history[i].image_path = image_path /\ history[i].annotator = username}

\* C7: get_latest_annotation_for_image returns None when no record has the image
\* and the annotator, and otherwise one of those records whose timestamp is the
\* largest among them; when exactly two records match, with different
\* is_correct and the second with the later timestamp, it returns the second.
C7_LatestHasMaxTimestamp ==
    \A image_path \in ImagePaths, username \in Annotators \cup {"zed"} :
        LET m == Matching(image_path, username)
            latest == get_latest_annotation_for_image(image_path, username)
        IN  /\ (m = {}) => latest = None
            /\ (m # {}) =>
                /\ latest # None
                /\ \E i \in m : history[i] = latest[1]
                /\ \A i \in m : history[i].timestamp <= latest[1].timestamp
            /\ \A i, j \in m :
                ( /\ m = {i, j}
                  /\ i < j
                  /\ history[i].is_correct # history[j].is_correct
                  /\ history[i].timestamp < history[j].timestamp )
                => latest[1] = history[j]

\* An image was annotated twice by one user, the second time with the opposite
\* verdict and a later timestamp, after an annotation with a later timestamp
\* still by somebody else.
C7_Witness ==
    /\ Len(history) = 3
    /\ \E image_path \in ImagePaths, username \in Annotators :
        /\ Matching(image_path, username) = {2, 3}
        /\ history[2].is_correct # history[3].is_correct
        /\ history[2].timestamp < history[3].timestamp

\* C8: when several records of the image and annotator share the largest
\* timestamp, get_latest_annotation_for_image returns the one inserted last
\* among them.
C8_TieBrokenByLatestId ==
    \A image_path \in ImagePaths, username \in Annotators :
        LET m == Matching(image_path, username)
            latest == get_latest_annotation_for_image(image_path, username)
            tied == {i \in m : \A j \in m : history[j].timestamp <= history[i].timestamp}
        IN  (m # {}) =>
                latest[1] = history[CHOOSE i \in tied : \A j \in tied : j <= i]

InvalidRegistration(username, password, role, admin_key) ==
    \/ Len(username) < 3
    \/ Registered(username)
    \/ ~SatisfiesPolicy(password)
    \/ (role = "admin" /\ admin_key # Some(ADMIN_CREATION_KEY))

\* C9: in every state, a register_user call with a username shorter than 3 or
\* already in the list, a password violating the policy, or role admin without
\* the admin key fails with a reason and leaves the user list as it was; and a
\* register_user call that returns failure changes neither the user list nor
\* the two files of the ledger.
C9_FailedRegistrationWritesNothing ==
    /\ [](\A username \in JointUsernames, password \in JointPasswords, role \in Roles,
             admin_key \in JointAdminKeys, now \in Times, salt \in Salts :
            InvalidRegistration(username, password, role, admin_key)
            => LET reg == register_user(users, username, password, role, admin_key, now, salt) IN
               /\ reg.val[1] = FALSE
               /\ Len(reg.val[2]) > 0
               /\ reg.users = users)
    /\ [][(ret'.op = "register_user" /\ ret'.val[1] = FALSE)
            => /\ users' = users
               /\ history' = history
               /\ history_csv' = history_csv
       ]_vars

\* A registration without a digit in the password has been refused while the
\* ledger holds records.
C9_Witness ==
    /\ ret.op = "register_user"
    /\ ret.val = <<FALSE, "Password must contain at least one number">>
    /\ Len(history) >= 1

Admins(us) == {us[i].username : i \in {j \in 1..Len(us) : us[j].role = "admin"}}

\* C10: in every state register_user with role admin and a missing, empty or
\* different key fails and stores no user; a username becomes that of an admin
\* only by a register_user call with role admin and the admin key; and no call
\* changes the role of a user who stays in the list.
C10_AdminOnlyWithKey ==
    /\ [](\A username \in Usernames, password \in Passwords,
             admin_key \in AdminKeys \ {Some(ADMIN_CREATION_KEY)}, now \in Times, salt \in Salts :
            LET reg == register_user(users, username, password, "admin", admin_key, now, salt) IN
            /\ reg.val[1] = FALSE
            /\ reg.users = users)
    /\ [][(users' # users) =>
            /\ \A username \in Admins(users') \ Admins(users) :
                /\ ~Registered(username)
                /\ \E password \in Passwords :
                    Register(username, password, "admin", Some(ADMIN_CREATION_KEY))
            /\ \A username \in Usernames :
                (Registered(username) /\ Registered(username)')
                => Entry(username)'.role = Entry(username).role
       ]_vars

\* An admin registration with a wrong key has been refused while an admin,
\* registered with the key, is listed.
C10_Witness ==
    /\ ret.op = "register_user"
    /\ ret.line = 90
    /\ Len(users) = 1
    /\ users[1].role = "admin"

(* ------------------------------ C11 .. C20 ----------------------------- *)

\* A name nobody registers.
Stranger == "zed"

\* The cause of a failed authenticate_user call, read off the list.
FailureCause(username, password) ==
    IF ~Registered(username) THEN "NotFound"
    ELSE IF ~Entry(username).is_active THEN "Disabled"
    ELSE IF password # CurrentPassword(username) THEN "InvalidCredentials"
    ELSE "none"

C11_FailureResults ==
    \A username \in Usernames \cup {Stranger}, password \in AllPasswords, now \in Times :
        LET auth == authenticate_user(users, username, password, now) IN
        /\ (FailureCause(username, password) = "none") <=> (auth.val[1] = TRUE)
        /\ (FailureCause(username, password) # "none")
            => /\ auth.val = <<FALSE, None>>
               /\ auth.users = users

RecordsOf(username) == {k \in 1..Len(history) : history[k].annotator = username}

\* seq lists exactly the elements of full at the positions in keep, in order.
ListsInOrder(seq, full, keep) ==
    /\ Len(seq) = Cardinality(keep)
    /\ \A k \in keep : seq[Cardinality({j \in keep : j <= k})] = full[k]

\* C12: in every state delete_user(u) leaves a list without an entry of u that
\* holds the entries of the other users as they were and in the order they
\* had; get_user_annotations(u) and both exports for u list all records with
\* annotator u, in ledger order, whether u is in the user list or not; and a
\* delete_user call changes neither file of the ledger.
C12_DeleteKeepsOthersAndLedger ==
    /\ [](\A username \in RosterUsernames \cup {Stranger} :
            LET del == delete_user(users, username)
                others == {i \in 1..Len(users) : users[i].username # username}
            IN  /\ \A i \in 1..Len(del.users) : del.users[i].username # username
                /\ ListsInOrder(del.users, users, others)
                /\ ListsInOrder(get_user_annotations(username), history, RecordsOf(username))
                /\ ListsInOrder(export_to_json(Some(username)), history, RecordsOf(username))
                /\ Len(export_to_csv(Some(username)).rows) = Cardinality(RecordsOf(username))
                /\ \A k \in RecordsOf(username) :
                    LET row == export_to_csv(Some(username)).rows[Cardinality({j \in RecordsOf(username) : j <= k})]
                    IN  /\ row[1] = history[k].annotation_id
                        /\ row[9] = username)
    /\ [][ret'.op = "delete_user"
            => /\ history' = history
               /\ history_csv' = history_csv
               /\ \A username \in RosterUsernames :
                    get_user_annotations(username)' = get_user_annotations(username)
       ]_vars

\* The first of three users, who has records in the ledger, has been deleted
\* and the other two are listed in the order they registered in.
C12_Witness ==
    /\ ret.op = "delete_user"
    /\ Len(users) = 2
    /\ users[1].username = "bob"
    /\ users[2].username = "cyd"
    /\ ~Registered("ann")
    /\ Len(get_user_annotations("ann")) >= 1
    /\ Len(get_user_annotations("bob")) >= 1

UserFields == {"username", "password_hash", "role", "created_at", "last_login", "is_active"}

\* after is before with is_active of the entries of username set to flag and
\* nothing else changed.
OnlyActiveFlagSet(before, after, username, flag) ==
    /\ Len(after) = Len(before)
    /\ \A i \in 1..Len(before) :
        /\ DOMAIN after[i] = UserFields
        /\ \A f \in UserFields \ {"is_active"} : after[i][f] = before[i][f]
        /\ after[i].is_active = IF before[i].username = username THEN flag
                                 ELSE before[i].is_active

\* C13: in every state disable_user(u) and enable_user(u) return True exactly
\* when u is in the user list; then is_active of u becomes False / True and
\* nothing else in the list changes; when u is not in the list they return
\* False and leave the list as it was; and neither call changes the two files
\* of the ledger.
C13_SetActiveFrame ==
    /\ [](\A username \in RosterUsernames \cup {Stranger} :
            LET dis == disable_user(users, username)
                en == enable_user(users, username)
            IN  /\ dis.val = Registered(username)
                /\ en.val = Registered(username)
                /\ Registered(username)
                   => /\ OnlyActiveFlagSet(users, dis.users, username, FALSE)
                      /\ OnlyActiveFlagSet(users, en.users, username, TRUE)
                /\ ~Registered(username)
                   => /\ dis.users = users
                      /\ en.users = users)
    /\ [][ret'.op \in {"disable_user", "enable_user"}
            => /\ history' = history
               /\ history_csv' = history_csv
               /\ ret'.val = FALSE => users' = users
       ]_vars

\* A disabled user has been enabled again while another user stays disabled
\* and the ledger holds records.
C13_Witness ==
    /\ ret.op = "enable_user"
    /\ ret.val = TRUE
    /\ Len(users) >= 2
    /\ \E i, j \in 1..Len(users) : users[i].is_active /\ ~users[j].is_active
    /\ Len(history) >= 1

\* after is before with a new password_hash in the entry of username and
\* nothing else changed.
OnlyPasswordHashSet(before, after, username) ==
    /\ Len(after) = Len(before)
    /\ \A i \in 1..Len(before) :
        /\ DOMAIN after[i] = UserFields
        /\ \A f \in UserFields \ {"password_hash"} : after[i][f] = before[i][f]
        /\ before[i].username # username => after[i].password_hash = before[i].password_hash

\* What C14 says of update_password(username, p) in the current state; the
\* logins after a success are asked of the accounts in whenActive.
UpdatePasswordContract(username, p, salt, now, whenActive) ==
    LET up == update_password(users, username, p, salt) IN
    /\ ~SatisfiesPolicy(p)
       => /\ up.val[1] = FALSE
          /\ up.val[2] # "User not found"
          /\ up.users = users
    /\ ~Registered(username)
       => /\ up.val[1] = FALSE
          /\ up.users = users
    /\ (SatisfiesPolicy(p) /\ Registered(username)) => up.val[1] = TRUE
    /\ up.val[1] = TRUE
       => /\ OnlyPasswordHashSet(users, up.users, username)
          /\ Entry(username).is_active \in whenActive
             => authenticate_user(up.users, username, p, now).val[1] = TRUE
          /\ \A old \in AllPasswords \ {p} :
                authenticate_user(up.users, username, old, now).val[1] = FALSE

\* C14 as stated: update_password fails and changes nothing when the password
\* violates the policy (reported before the user is looked up) or the user is
\* not registered; when it succeeds only password_hash of the user changes,
\* authenticate_user with the new password then succeeds and with any other
\* password fails.
C14_UpdatePasswordThenLogin ==
    \A username \in Usernames \cup {Stranger}, p \in AllPasswords,
       salt \in Salts, now \in Times :
        UpdatePasswordContract(username, p, salt, now, {TRUE, FALSE})

\* What the amended C14 says of update_password in the current state.
C14_ContractIfActive ==
    \A username \in Usernames \cup {Stranger}, p \in AllPasswords,
       salt \in Salts, now \in Times :
        UpdatePasswordContract(username, p, salt, now, {TRUE})

\* C14 as amended: the statement of C14 with the login under the new password
\* succeeding when the account is active; and a call of update_password
\* changes the list on its success path only, there in the password_hash of
\* one entry.
C14_UpdatePasswordThenLoginIfActive ==
    /\ []C14_ContractIfActive
    /\ [][(ret'.op = "update_password" /\ ret' # ret) =>
            IF ret'.line = 205
            THEN \E username \in Usernames : OnlyPasswordHashSet(users, users', username)
            ELSE users' = users]_vars

\* The password of a user who had logged in with another one has been changed
\* while a second user is deactivated.
C14_Witness ==
    /\ ret.op = "update_password"
    /\ ret.line = 205
    /\ Len(users) = 2
    /\ \E i, j \in 1..Len(users) :
        /\ users[i].last_login # None
        /\ users[i].password_hash[2][2] = PwSecr3tKey
        /\ ~users[j].is_active

\* C15: in every state no two entries of the user list have the same
\* username, and a name that differs from every listed name only by the case
\* of its letters is free: register_user accepts it with a valid password.
C15_UsernamesUnique ==
    /\ \A i, j \in 1..Len(users) : i # j => users[i].username # users[j].username
    /\ \A username \in Usernames, password \in Passwords, now \in Times, salt \in Salts :
        (~Registered(username) /\ SatisfiesPolicy(password))
        => register_user(users, username, password, "annotator", None, now, salt).val[1] = TRUE

\* "Ann" has registered and logged in, "ann" has registered after that: both
\* are listed.
C15_Witness ==
    /\ ret.op = "register_user"
    /\ ret.line = 106
    /\ Len(users) = 2
    /\ users[1].username = "Ann"
    /\ users[2].username = "ann"
    /\ users[1].last_login # None

\* C16: in every state get_user_stats(u) returns total = the number of ledger
\* records with annotator u, correct = the number of those marked correct,
\* incorrect = total - correct, and correct_percentage = 100 * correct / total;
\* for a u without records it returns 0, 0, 0 and 0.0.
C16_UserStats ==
    \A username \in Annotators \cup {Stranger} :
        LET stats == get_user_stats(username)
            mine == RecordsOf(username)
            right == {k \in mine : history[k].is_correct = TRUE}
        IN  /\ DOMAIN stats = {"total", "correct", "incorrect", "correct_percentage"}
            /\ stats.total = Cardinality(mine)
            /\ stats.correct = Cardinality(right)
            /\ stats.incorrect = Cardinality(mine \ right)
            /\ stats.correct + stats.incorrect = stats.total
            /\ stats.correct_percentage[2] > 0
            /\ stats.correct_percentage[1] * stats.total
                    = 100 * stats.correct * stats.correct_percentage[2]
            /\ (mine = {}) => stats.correct_percentage = <<0, 1>>

\* One annotator has three records, one of them marked correct, and the other
\* annotator has none.
C16_Witness ==
    /\ ret.op = "save_annotation"
    /\ get_user_stats("ann").total = 3
    /\ get_user_stats("ann").correct = 1
    /\ get_user_stats("ann").correct_percentage = <<100, 3>>
    /\ get_user_stats("bob").total = 0

RECURSIVE SumTotals(_)
SumTotals(rows) == IF rows = <<>> THEN 0 ELSE Head(rows).total + SumTotals(Tail(rows))

ListedNames(us) == [i \in 1..Len(us) |-> us[i].username]

AllUserStatsRows ==
    LET rows == get_all_user_stats IN
    /\ Len(rows) = Len(users)
    /\ \A i \in 1..Len(rows) :
        LET mine == RecordsOf(users[i].username)
            right == {k \in mine : history[k].is_correct = TRUE}
        IN  /\ rows[i].username = users[i].username
            /\ rows[i].role = users[i].role
            /\ rows[i].total = Cardinality(mine)
            /\ rows[i].correct = Cardinality(right)
            /\ rows[i].incorrect = Cardinality(mine \ right)
            /\ rows[i].correct_percentage[1] * rows[i].total
                    = 100 * rows[i].correct * rows[i].correct_percentage[2]
            /\ rows[i] = get_user_stats(users[i].username)
                            @@ [username |-> users[i].username, role |-> users[i].role]
    /\ SumTotals(rows)
            = Cardinality({k \in 1..Len(history) : Registered(history[k].annotator)})

\* C17: in every state get_all_user_stats() has one row per entry of the user
\* list, in list order, with the username and the stored role of the entry and
\* the counts of the ledger records of that annotator; the rows together count
\* exactly the records whose annotator is in the list.  The order of the list,
\* and so of the rows, is that of registration: a registration adds its entry
\* at the end, and any other call that changes the list leaves the remaining
\* entries in the order they had.
C17_AllUserStats ==
    /\ []AllUserStatsRows
    /\ [][(users' # users) =>
            LET before == ListedNames(users)
                after == ListedNames(users')
            IN  /\ (ret'.op = "register_user")
                    => /\ Len(after) = Len(before) + 1
                       /\ SubSeq(after, 1, Len(before)) = before
                /\ (ret'.op # "register_user")
                    => ListsInOrder(after, before,
                            {i \in 1..Len(before) : \E j \in 1..Len(after) : after[j] = before[i]})
       ]_vars

\* An admin and an annotator are listed, in this order; one record of the
\* ledger is by one of them and one by a user who is no longer listed.
C17_Witness ==
    /\ Len(users) = 2
    /\ users[1].role = "admin"
    /\ users[2].role = "annotator"
    /\ Len(history) = 2
    /\ \E k \in 1..2 : Registered(history[k].annotator)
    /\ \E k \in 1..2 : ~Registered(history[k].annotator)
    /\ SumTotals(get_all_user_stats) = 1

\* The image files of a folder of sorted_crops.
ImagesIn(folder) ==
    {g \in sorted_crops[folder] : g.is_file = TRUE /\ g.suffix \in image_extensions}

\* The lines of the label file of a folder, none if there is no such file.
LinesOf(folder) == IF folder \in DOMAIN ground_truth THEN ground_truth[folder] ELSE <<>>

\* C18: what load_all_data returned has exactly one entry per image file of
\* every folder; the entry of the image at position i (from 0) of its folder's
\* images in name order carries index i and the i-th line of the folder's
\* label file, stripped, or the empty string when the file has no such line;
\* the entries come folder by folder in sorted order and by index inside a
\* folder; and three images with the two labels hello, wrold yield hello,
\* wrold and the empty string.
C18_PositionalPairing ==
    (ret.op = "load_all_data") =>
        LET images == UNION {{<<f, g.name>> : g \in ImagesIn(f)} : f \in DOMAIN sorted_crops}
            in31 == SelectSeq(all_data, LAMBDA e : e.folder = "31")
        IN  /\ ret.val = all_data
            /\ Len(all_data) = Cardinality(images)
            /\ \A im \in images :
                \E p \in 1..Len(all_data) :
                    /\ all_data[p].folder = im[1]
                    /\ all_data[p].filename = im[2]
            /\ \A p \in 1..Len(all_data) :
                LET e == all_data[p]
                    i == Cardinality({g \in ImagesIn(e.folder) : Rank(g.name) < Rank(e.filename)})
                IN  /\ <<e.folder, e.filename>> \in images
                    /\ e.index = i
                    /\ e.suggested_label = IF i < Len(LinesOf(e.folder))
                                           THEN Strip(LinesOf(e.folder)[i + 1])
                                           ELSE ""
            /\ \A p, q \in 1..Len(all_data) :
                p < q => \/ Rank(all_data[p].folder) < Rank(all_data[q].folder)
                         \/ /\ all_data[p].folder = all_data[q].folder
                            /\ all_data[p].index < all_data[q].index
            /\ ( /\ {g.name : g \in ImagesIn("31")} = {"000.jpg", "001.jpg", "002.png"}
                  /\ LinesOf("31") = <<LineHello, LineWrold>> )
                => [k \in 1..Len(in31) |-> in31[k].suggested_label] = <<"hello", "wrold", "">>

\* Folder 31 with three images, a directory entry that is no image and a
\* label file of two lines has been loaded, together with a second folder.
C18_Witness ==
    /\ ret.op = "load_all_data"
    /\ DOMAIN sorted_crops = {"31", "4"}
    /\ sorted_crops["31"] = FolderEntries
    /\ LinesOf("31") = <<LineHello, LineWrold>>
    /\ Len(all_data) = 4
    /\ all_data[3].suggested_label = ""
    /\ all_data[4].folder = "4"

\* The annotators with a record for the image.
AnnotatorsOf(image_path) ==
    {history[k].annotator : k \in {j \in 1..Len(history) : history[j].image_path = image_path}}

\* The record saved last for the image by the annotator.
LastRecord(image_path, username) ==
    history[CHOOSE k \in Matching(image_path, username) :
                \A j \in Matching(image_path, username) : j <= k]

EffectiveLabel(record) ==
    IF record.is_correct = TRUE THEN record.suggested_label ELSE record.corrected_label

SharedImages == {image_path \in ImagePaths : Cardinality(AnnotatorsOf(image_path)) >= 2}

Agreed(image_path) ==
    \A a, b \in AnnotatorsOf(image_path) :
        EffectiveLabel(LastRecord(image_path, a)) = EffectiveLabel(LastRecord(image_path, b))

CellUnder(row, name) == row[CHOOSE c \in 1..Len(CsvHeader) : CsvHeader[c] = name]

\* The text of the cell stands for the value: True and False for the booleans
\* of is_correct, the string itself elsewhere.
CellReads(name, text, value) ==
    IF name = "is_correct"
    THEN \/ (text = "True" /\ value = TRUE)
         \/ (text = "False" /\ value = FALSE)
    ELSE text = value

\* C20: in every state history.csv has as many data rows as history.json has
\* records, and the cells of the k-th row under the header names
\* annotation_id, image_path, annotator, is_correct, corrected_label and
\* timestamp stand for the values of these keys in the k-th record.
C20_CsvJsonInSync ==
    /\ Len(history_csv) = Len(history)
    /\ \A k \in 1..Len(history_csv) :
        /\ Len(history_csv[k]) >= Len(CsvHeader)
        /\ \A name \in {"annotation_id", "image_path", "annotator", "is_correct",
                          "corrected_label", "timestamp"} :
            CellReads(name, CellUnder(history_csv[k], name), history[k][name])

\* Three annotations have been saved, the second marked incorrect and the
\* third correct; each row has a tenth cell the header does not name.
C20_Witness ==
    /\ ret.op = "save_annotation"
    /\ Len(history) = 3
    /\ Len(history_csv) = 3
    /\ history_csv[2][6] = "False"
    /\ history_csv[3][6] = "True"
    /\ Len(history_csv[3]) = 10
    /\ history_csv[3][1] = "ANN_000003"


(* ------------------------------ C21 ------------------------------------ *)

\* The usernames an export is asked for: none (the full history), the empty
\* string, and each annotator.
ExportUsernames == {None, Some("")} \cup {Some(a) : a \in Annotators}

\* C21: the records produced by export_to_csv and export_to_json, for the
\* full history or for one user, hold exactly the nine record fields in the
\* order of the header of history.csv (annotation_id, image_path, folder,
\* filename, suggested_label, is_correct, corrected_label, annotator,
\* timestamp).
C21_ExportsInCsvHeaderOrder ==
    \A username \in ExportUsernames :
        /\ export_to_csv(username).rows # <<>> =>
                export_to_csv(username).header = CsvHeader
        /\ \A k \in 1..Len(export_to_json(username)) :
                export_to_json_keys(username)[k] = CsvHeader


(* ------------------------------ C25 ------------------------------------ *)

\* The six-digit zero-padded id of a sequence number below ten.
IdOfSequenceNumber(n) == "ANN_00000" \o DigitStr(n)

\* The sequence number an id of the ledger carries.
SequenceNumber(id) == CHOOSE n \in 0..9 : id = IdOfSequenceNumber(n)

C25_LedgerIds ==
    /\ \A k \in 1..Len(history) :
            history[k].annotation_id = IdOfSequenceNumber(k)
    /\ \A j, k \in 1..Len(history) :
            j < k => SequenceNumber(history[j].annotation_id)
                        < SequenceNumber(history[k].annotation_id)

\* C25: in a sequential run the record save_annotation writes gets the id
\* 'ANN_' followed by the six-digit zero-padded value of the ledger length
\* before the call plus one; the k-th record of the ledger carries sequence
\* number k and the ids increase strictly with insertion order.
C25_SequentialIds ==
    /\ []C25_LedgerIds
    /\ [][ret'.op = "save_annotation" /\ ret' # ret =>
            /\ Len(history') = Len(history) + 1
            /\ history'[Len(history')].annotation_id
                    = IdOfSequenceNumber(Len(history) + 1)]_vars

\* Three calls have run one after the other and the last one has returned.
C25_Witness ==
    /\ ret.op = "save_annotation"
    /\ Len(history) = 3
    /\ history[3].annotation_id = "ANN_000003"

(* ------------------------------ C24 ------------------------------------ *)

\* C24: the two-argument call register_user(username, 'annotator') of the
\* login page, made with a username of at least three characters that no
\* entry has, registers the user: right after it load_users() holds an entry
\* of that username, and the result of the call is truthy only when an
\* account was created.
C24_TwoArgumentCallRegisters ==
    [][\A username \in PortalTyped :
        (/\ session_state.current_user = None
         /\ session_state' = [current_user |-> Some(username),
                              current_role |-> Some("annotator")]
         /\ ret'.op = "register_user"
         /\ Len(username) >= 3
         /\ ~UsernameExists(users, username))
        => /\ UsernameExists(users', username)
           /\ Truthy(ret'.val) <=> users' # users]_vars

(* ------------------------------ C26 ------------------------------------ *)

\* The entry get_user(current_user) finds has role admin.
StoredAsAdmin(current_user) ==
    /\ current_user # None
    /\ get_user(current_user[1]) # None
    /\ get_user(current_user[1])[1].role = "admin"

\* C26: the admin dashboard is shown only to a session whose current_user is
\* stored in the user list with role admin; a session whose user is
\* unregistered or stored as annotator never gets the dashboard, whichever
\* button of the login page it came through.
C26_DashboardOnlyForStoredAdmins ==
    main(session_state) = show_admin_page => StoredAsAdmin(session_state.current_user)

(* ------------------------------ C22 ------------------------------------ *)

LedgerReads == {"load_history", "get_user_annotations", "get_user_stats", "get_all_user_stats"}

\* The all-zero statistics of a user without records.
ZeroStats == [total |-> 0, correct |-> 0, incorrect |-> 0, correct_percentage |-> <<0, 1>>]

\* The result of a read of an empty ledger.
EmptyResult(op, us) ==
    CASE op = "get_user_stats" -> ZeroStats
      [] op = "get_all_user_stats" ->
            [i \in 1..Len(us) |->
                ZeroStats @@ [username |-> us[i].username, role |-> us[i].role]]
      [] OTHER -> <<>>

\* C22: when history.json does not parse, load_history() returns the empty
\* list instead of letting the error through, so get_user_annotations,
\* get_user_stats and get_all_user_stats still return, with the result of an
\* empty ledger (all-zero statistics).
C22_ReadsDegradeToEmpty ==
    [][(history_json_damaged /\ ret' # ret /\ ret'.op \in LedgerReads)
        => /\ "val" \in DOMAIN ret'
           /\ ret'.val = EmptyResult(ret'.op, users)]_vars

(* ------------------------------ C23 ------------------------------------ *)

\* No save_annotation call is between its first read and its return.
Quiescent == \A s \in Sessions : calls[s].pc \in AtRest

\* Session s performs the rewrite of history.json and returns.
RewriteStep(s) == calls[s].pc = "write_json" /\ calls'[s].pc = "returned"

\* With every call returned, history.json holds at most as many records as
\* calls have completed (one row of history.csv each), at least one if any
\* call completed, and each of its records has its row in history.csv.
C23_LedgerAtRest ==
    Quiescent =>
        /\ Len(history) <= Len(history_csv)
        /\ history_csv # <<>> => history # <<>>
        /\ \A k \in 1..Len(history) :
                \E r \in 1..Len(history_csv) : history_csv[r] = CsvRow(history[k])

\* C23: two save_annotation calls of two sessions interleaved at their file
\* operations can leave history.json with one of the two new records only,
\* both calls having returned: the rewrite stores the list the call read at
\* line 261 plus its own record, so what another session wrote after that
\* read is dropped, and the ledger holds fewer records than calls completed.
C23_LostUpdate ==
    /\ []C23_LedgerAtRest
    /\ [][\A s \in Sessions :
            RewriteStep(s) =>
                history' = Append(calls[s].history, calls[s].full_annotation)]_vars

\* Both sessions have completed one call each on the empty ledger, and only
\* one record is in history.json.
C23_Witness ==
    /\ \A s \in Sessions : calls[s].pc = "returned"
    /\ Len(history_csv) = 2
    /\ Len(history) = 1

(* ------------------------------ C28 ------------------------------------ *)

\* C28: the annotation_id values of the records of history.json are pairwise
\* distinct in every reachable state, also when the save_annotation calls of
\* two sessions interleave between the read of _generate_annotation_id and
\* the rewrite of history.json.
C28_IdsDistinctUnderInterleaving ==
    \A j, k \in 1..Len(history) :
        j # k => history[j].annotation_id # history[k].annotation_id

(* ------------------------------ C27 ------------------------------------ *)

\* The entry of username in users.json has is_active False.
Inactive(us, username) ==
    \E i \in 1..Len(us) : us[i].username = username /\ ~us[i].is_active

\* C27: once disable_user(u) has returned True, u stays inactive in the user
\* list until enable_user(u) is called, also when an authenticate_user call
\* of another session interleaves with the disable between load_users and
\* _save_users: an inactive entry becomes active only by the write of an
\* enable_user call.
C27_DisabledUntilEnabled ==
    [][(Inactive(users, GuardedUser) /\ ~Inactive(users', GuardedUser))
        => (ret'.op = "enable_user" /\ ret'.line = 184)]_vars

(* ------------------------------ C29 ------------------------------------ *)

\* Every record with annotator username is in what the four queries give for
\* username: the list, the image set, the statistics and, for a name of the
\* user list, its row in get_all_user_stats().
AttributedByName(username) ==
    LET mine == RecordsOf(username)
        right == {k \in mine : history[k].is_correct = TRUE}
    IN  /\ ListsInOrder(get_user_annotations(username), history, mine)
        /\ get_annotated_images(username) = {history[k].image_path : k \in mine}
        /\ get_user_stats(username).total = Cardinality(mine)
        /\ get_user_stats(username).correct = Cardinality(right)
        /\ \A i \in 1..Len(users) :
                users[i].username = username =>
                    /\ get_all_user_stats[i].username = username
                    /\ get_all_user_stats[i].total = Cardinality(mine)
                    /\ get_all_user_stats[i].correct = Cardinality(right)

C29_QueriesByName == \A username \in RejoinUsernames : AttributedByName(username)

\* C29: ledger records are attributed by the value of the username only.
\* delete_user and register_user leave the ledger as it is, so after
\* delete_user(u) and a new successful register_user(u, ...) the queries
\* get_user_annotations(u), get_annotated_images(u), get_user_stats(u) and the
\* row of u in get_all_user_stats() include every record that was appended
\* with annotator u before the delete.
C29_RecordsFollowTheName ==
    /\ []C29_QueriesByName
    /\ [][(ret' # ret /\ ret'.op \in {"delete_user", "register_user"})
            => history' = history]_vars

\* register_user('ann', ..., 'admin', key) has just succeeded, so ann was not
\* in the list before it, and the ledger holds a record of ann: it was saved
\* while ann was stored as annotator, an entry that was deleted since.
C29_Witness ==
    /\ ret.op = "register_user"
    /\ ret.line = 106
    /\ users # <<>>
    /\ users[Len(users)].username = "ann"
    /\ users[Len(users)].role = "admin"
    /\ RecordsOf("ann") # {}
    /\ get_user_stats("ann").total = Cardinality(RecordsOf("ann"))

(* ------------------------------ C30 ------------------------------------ *)

\* The position of an item in the catalog, counted from 1.
CatalogPosition(item) == CHOOSE p \in 1..Len(all_data) : all_data[p] = item

\* The catalog positions behind p whose image username has not annotated in
\* the ledger hist.
UnannotatedBehind(p, hist, username) ==
    {q \in (p + 1)..Len(all_data) :
        \A k \in 1..Len(hist) :
            ~(hist[k].annotator = username /\ hist[k].image_path = all_data[q].image_path)}

\* C30: with "Show only unannotated" checked, pressing "Correct & Next" or
\* "Submit & Next" presents the unannotated images in catalog order without
\* skipping any: after the image shown is saved, the next image shown is the
\* first catalog image behind it that the user has not annotated; and the
\* index is a valid index of the filtered list whenever an image is shown.
C30_NextUnannotatedShown ==
    [][(session_state.show_only_unannotated /\ history' # history) =>
        LET username == session_state.current_user[1]
            behind == UnannotatedBehind(CatalogPosition(session_state.current_data[1]),
                                        history', username)
            first == CHOOSE q \in behind : \A r \in behind : q <= r
        IN  /\ behind # {} => session_state'.current_data = Some(all_data[first])
            /\ session_state'.current_data # None =>
                    session_state'.current_index
                        < Cardinality(UnannotatedBehind(0, history', username))
       ]_vars

====
